---- MODULE Spec2Model ----
(***************************************************************************)
(* TurboIndex: the EXPLAIN-plan analyser (index_recommender.py), the       *)
(* rule-based query rewriter (rewriter.py) and the statistics of a query   *)
(* profile (profiler.py).                                                  *)
(*                                                                         *)
(* All are pure functions of their inputs.  Each specification below       *)
(* draws the inputs of one group of functions from bounded sets in its     *)
(* Init and applies the functions in its actions.                          *)
(***************************************************************************)
EXTENDS Integers, Sequences, FiniteSets, TLC

VARIABLES
    pc,               \* position of the caller: which calls have returned
    explain_rows,     \* List[Dict[str, Any]]: the plan rows given to the analyser
    recommendations,  \* List[IndexRecommendation] given to / returned by the analyser
    health_score,     \* first component of _compute_index_health's result
    issues,           \* second component of _compute_index_health's result
    arg_sql,            \* the SQL string given to the rewriter
    arg_mode,         \* the tier string of the call
    arg_database,     \* the database parameter of rewrite_query_with_connection
    arg_resolver,     \* the column resolver of the call
    consulted,        \* the tables the resolver was called on
    result,           \* what the first call returned
    again,            \* what rewrite_query returned when re-applied to its output
    profile,          \* a QueryProfileResult object
    data              \* what its to_dict() returned

planVars == <<explain_rows, recommendations, health_score, issues>>
rewriteVars == <<arg_sql, arg_mode, arg_database, arg_resolver, consulted, result, again>>
profileVars == <<profile, data>>
vars == <<pc, planVars, rewriteVars, profileVars>>

(***************************************************************************)
(* Bounds of the model.                                                    *)
(***************************************************************************)
MaxRows == 3    \* plan rows per EXPLAIN result
MaxRecs == 5    \* recommendations handed directly to _compute_index_health
MaxConds == 3   \* conditions joined by OR in a SQL string
MaxExplainRows == 3   \* explain rows stored in a QueryProfileResult
MaxSamples == 2       \* samples stored in a QueryProfileResult

(***************************************************************************)
(* Python values.                                                          *)
(***************************************************************************)
\* dict.get(k) of a key that is absent (or whose value is NULL in the plan).
None == "<None>"

\* Truthiness of an optional string: None and "" are falsy.
Falsy(v) == v = None \/ v = ""

\* str.lower() on the access types and Extra annotations a plan can carry, and
\* on the tier strings.
Lower(s) ==
    CASE s = "ALL" -> "all"
      [] s = "All" -> "all"
      [] s = "INDEX" -> "index"
      [] s = "Using where" -> "using where"
      [] s = "Using filesort" -> "using filesort"
      [] s = "Using FILESORT" -> "using filesort"
      [] s = "Using temporary" -> "using temporary"
      [] s = "Using index" -> "using index"
      [] s = "MODERATE" -> "moderate"
      [] s = "SAFE" -> "safe"
      [] s = "Aggressive" -> "aggressive"
      [] OTHER -> s

\* The Extra column is a "; "-joined list of annotations; it is kept as the
\* sequence of its annotations.  `needle in extra` holds when an annotation
\* contains the needle.
AnnotationContains(annotation, needle) ==
    CASE needle = "Using where" -> annotation = "Using where"
      [] needle = "filesort" -> annotation \in {"using filesort", "Using filesort"}
      [] needle = "temporary" -> annotation \in {"using temporary", "Using temporary"}
      [] OTHER -> FALSE

In(needle, extra) == \E k \in 1..Len(extra) : AnnotationContains(extra[k], needle)

LowerAll(extra) == [k \in 1..Len(extra) |-> Lower(extra[k])]

(***************************************************************************)
(* index_recommender.py                                                    *)
(***************************************************************************)
\* row.get(...) with the code's defaults: str(row.get("type") or "").lower()
AccessType(row) == IF Falsy(row.type) THEN "" ELSE Lower(row.type)

\* _suggest_index_name: "idx_" + table + "_" + "_".join(columns[:3]), kept as
\* the pair of the table and the columns that enter the name.
_suggest_index_name(table, columns) ==
    [prefix |-> "idx", table |-> table,
     cols |-> SubSeq(columns, 1, IF Len(columns) < 3 THEN Len(columns) ELSE 3)]

IndexRecommendation(table, where_columns) ==
    [table |-> table,
     suggested_index_name |-> _suggest_index_name(table, where_columns),
     columns |-> where_columns,
     reason |-> "Full table scan detected with WHERE filtering and no index"]

\* Mutation: the `if not table: continue` guard is left out.
AnalyzeRowNoTableGuard(recs, row) ==
    IF AccessType(row) = "all" /\ Falsy(row.key) /\ In("Using where", row.Extra)
    THEN IF ~Falsy(row.possible_keys) THEN recs
         ELSE Append(recs, IndexRecommendation(row.table, <<"<choose_filter_column>">>))
    ELSE recs

\* Mutation: the `if possible_keys: continue` guard is left out.
AnalyzeRowIgnoresPossibleKeys(recs, row) ==
    IF AccessType(row) = "all" /\ Falsy(row.key) /\ In("Using where", row.Extra)
    THEN IF Falsy(row.table) THEN recs
         ELSE Append(recs, IndexRecommendation(row.table, <<"<choose_filter_column>">>))
    ELSE recs

\* One iteration of the loop of _analyze_explain_for_indexes: the list of
\* recommendations after `row`.
AnalyzeRow(recs, row) ==
    IF AccessType(row) = "all" /\ Falsy(row.key) /\ In("Using where", row.Extra)
    THEN IF ~Falsy(row.possible_keys) THEN recs
         ELSE IF Falsy(row.table) THEN recs
         ELSE Append(recs, IndexRecommendation(row.table, <<"<choose_filter_column>">>))
    ELSE recs

RECURSIVE AnalyzeFrom(_, _, _)
AnalyzeFrom(rows, k, recs) ==
    IF k > Len(rows) THEN recs
    ELSE AnalyzeFrom(rows, k + 1, AnalyzeRow(recs, rows[k]))

_analyze_explain_for_indexes(rows) == AnalyzeFrom(rows, 1, <<>>)

Issue(text, table) == [text |-> text, table |-> table, count |-> 0]
CountIssue(n) == [text |-> "index recommendation(s) suggested", table |-> None, count |-> n]

\* The if/elif on the access type.
HealthScan(st, table, access_type) ==
    IF access_type = "all"
    THEN [score |-> st.score - 20,
          issues |-> Append(st.issues, Issue("Full table scan on", table))]
    ELSE IF access_type = "index"
    THEN [score |-> st.score - 5,
          issues |-> Append(st.issues, Issue("Sequential index scan on", table))]
    ELSE st

HealthFilesort(st, table, extra) ==
    IF In("filesort", extra)
    THEN [score |-> st.score - 10,
          issues |-> Append(st.issues, Issue("Filesort required for", table))]
    ELSE st

HealthTemporary(st, table, extra) ==
    IF In("temporary", extra)
    THEN [score |-> st.score - 10,
          issues |-> Append(st.issues, Issue("Temporary table used for", table))]
    ELSE st

\* Mutation: the temporary-table check runs before the filesort check.
HealthRowSwapped(st, row) ==
    LET table == IF Falsy(row.table) THEN "?" ELSE row.table
        access_type == AccessType(row)
        extra == LowerAll(row.Extra)
    IN  HealthFilesort(HealthTemporary(HealthScan(st, table, access_type), table, extra),
                       table, extra)

\* One iteration of the loop of _compute_index_health.
HealthRow(st, row) ==
    LET table == IF Falsy(row.table) THEN "?" ELSE row.table
        access_type == AccessType(row)
        extra == LowerAll(row.Extra)
    IN  HealthTemporary(HealthFilesort(HealthScan(st, table, access_type), table, extra),
                        table, extra)

RECURSIVE HealthFrom(_, _, _)
HealthFrom(rows, k, st) ==
    IF k > Len(rows) THEN st
    ELSE HealthFrom(rows, k + 1, HealthRow(st, rows[k]))

Min(a, b) == IF a < b THEN a ELSE b
Max(a, b) == IF a > b THEN a ELSE b

\* Mutation: the recommendation penalty is not capped at 20.
HealthRecommendationsUncapped(st, recs) ==
    IF Len(recs) > 0
    THEN [score |-> st.score - 5 * Len(recs),
          issues |-> Append(st.issues, CountIssue(Len(recs)))]
    ELSE st

HealthRecommendations(st, recs) ==
    IF Len(recs) > 0
    THEN [score |-> st.score - Min(5 * Len(recs), 20),
          issues |-> Append(st.issues, CountIssue(Len(recs)))]
    ELSE st

\* Mutation: the final clamp is left out.
HealthNoClamp(st) == st

HealthClamp(st) == [score |-> Max(0, Min(100, st.score)), issues |-> st.issues]

_compute_index_health(rows, recs) ==
    HealthClamp(HealthRecommendations(
        HealthFrom(rows, 1, [score |-> 100, issues |-> <<>>]), recs))

(***************************************************************************)
(* Strings of rewriter.py.  A SQL string is the sequence of its            *)
(* characters; each regular expression of the module is an operator that,  *)
(* given a string and a position, returns the position just after the      *)
(* match that starts there, or 0 when there is none.                       *)
(***************************************************************************)
UpperCase == <<"A", "B", "C", "D", "E", "F", "G", "H", "I", "J", "K", "L", "M",
               "N", "O", "P", "Q", "R", "S", "T", "U", "V", "W", "X", "Y", "Z">>
LowerCase == <<"a", "b", "c", "d", "e", "f", "g", "h", "i", "j", "k", "l", "m",
               "n", "o", "p", "q", "r", "s", "t", "u", "v", "w", "x", "y", "z">>
DigitChars == <<"0", "1", "2", "3", "4", "5", "6", "7", "8", "9">>

Letters == {UpperCase[k] : k \in 1..26} \cup {LowerCase[k] : k \in 1..26}
Digits == {DigitChars[k] : k \in 1..10}

\* re.IGNORECASE: characters are compared after case folding.
LowerOf == [c \in {UpperCase[k] : k \in 1..26} |->
               LowerCase[CHOOSE k \in 1..26 : UpperCase[k] = c]]
LowerChar(c) == IF c \in DOMAIN LowerOf THEN LowerOf[c] ELSE c

WordChars == Letters \cup Digits \cup {"_"}
WordDotChars == WordChars \cup {"."}
SpaceChars == {" ", "\t", "\n"}

\* The character classes the patterns use: \s, [^\s], [\w\.], [A-Za-z0-9_], \d.
InClass(c, cls) ==
    CASE cls = "\\s" -> c \in SpaceChars
      [] cls = "[^\\s]" -> c \notin SpaceChars
      [] cls = "[\\w\\.]" -> c \in WordDotChars
      [] cls = "[A-Za-z0-9_]" -> c \in WordChars
      [] cls = "\\d" -> c \in Digits

\* cls* at position i: the end of the longest run (greedy; no pattern of the
\* module can succeed on a shorter run).  Failure (0) is passed on.
RECURSIVE Star(_, _, _)
Star(s, i, cls) ==
    IF i = 0 THEN 0
    ELSE IF i <= Len(s) /\ InClass(s[i], cls) THEN Star(s, i + 1, cls)
    ELSE i

\* cls+ at position i.
Plus(s, i, cls) == LET e == Star(s, i, cls) IN IF e > i THEN e ELSE 0

\* A literal (or a backreference) at position i, case-insensitively.
Lit(s, i, lit) ==
    IF /\ i > 0
       /\ i + Len(lit) - 1 <= Len(s)
       /\ \A k \in 1..Len(lit) : LowerChar(s[i + k - 1]) = LowerChar(lit[k])
    THEN i + Len(lit)
    ELSE 0

\* s[from:to) as a string.
Slice(s, from, to) == SubSeq(s, from, to - 1)

RECURSIVE Join(_, _)
Join(parts, sep) ==
    IF parts = <<>> THEN <<>>
    ELSE IF Len(parts) = 1 THEN parts[1]
    ELSE parts[1] \o sep \o Join(Tail(parts), sep)

\* str.strip()
RECURSIVE Strip(_)
Strip(s) ==
    IF s = <<>> THEN s
    ELSE IF InClass(s[1], "\\s") THEN Strip(Tail(s))
    ELSE IF InClass(s[Len(s)], "\\s") THEN Strip(SubSeq(s, 1, Len(s) - 1))
    ELSE s

\* part.partition("=")[2]: what follows the first "=", "" when there is none.
RECURSIVE AfterEq(_)
AfterEq(s) ==
    IF s = <<>> THEN <<>>
    ELSE IF s[1] = "=" THEN Tail(s)
    ELSE AfterEq(Tail(s))

\* int(year_str) of a string of digits.
DigitValue(c) == (CHOOSE k \in 1..10 : DigitChars[k] = c) - 1
RECURSIVE IntOf(_)
IntOf(s) ==
    IF s = <<>> THEN 0
    ELSE 10 * IntOf(SubSeq(s, 1, Len(s) - 1)) + DigitValue(s[Len(s)])

\* str(n) of a natural number, and f"{n:04d}".
RECURSIVE StrOf(_)
StrOf(n) ==
    IF n < 10 THEN <<DigitChars[n + 1]>>
    ELSE StrOf(n \div 10) \o <<DigitChars[(n % 10) + 1]>>
RECURSIVE PadLeft(_, _)
PadLeft(s, width) == IF Len(s) >= width THEN s ELSE PadLeft(<<"0">> \o s, width)
Format04d(n) == PadLeft(StrOf(n), 4)

(***************************************************************************)
(* String literals of rewriter.py.                                         *)
(***************************************************************************)
S_NE == <<"!", "=">>
S_EQ == <<"=">>
S_NULL == <<"N", "U", "L", "L">>
S_OR == <<"O", "R">>
S_WHERE == <<"W", "H", "E", "R", "E">>
S_YEAR == <<"Y", "E", "A", "R">>
S_LPAREN == <<"(">>
S_RPAREN == <<")">>
S_SELECT == <<"S", "E", "L", "E", "C", "T">>
S_STAR == <<"*">>
S_FROM == <<"F", "R", "O", "M">>
S_IS_NOT_NULL == <<"I", "S", " ", "N", "O", "T", " ", "N", "U", "L", "L">>
S_IS_NULL == <<"I", "S", " ", "N", "U", "L", "L">>
S_WHERE_ == <<"W", "H", "E", "R", "E", " ">>
S_IN_LPAREN == <<" ", "I", "N", " ", "(">>
S_COMMA_ == <<",", " ">>
S_QUOTE == <<"'">>
S_JAN1 == <<"-", "0", "1", "-", "0", "1">>
S_GE_ == <<" ", ">", "=", " ">>
S_AND_ == <<" ", "A", "N", "D", " ">>
S_LT_ == <<" ", "<", " ">>
S_SELECT_ == <<"S", "E", "L", "E", "C", "T", " ">>
S_FROM_ == <<" ", "F", "R", "O", "M", " ">>
S_users == <<"u", "s", "e", "r", "s">>
S_id == <<"i", "d">>
S_name == <<"n", "a", "m", "e">>
S_email == <<"e", "m", "a", "i", "l">>

\* The descriptions of the RewriteChange records (without their backquotes).
D_NOT_NULL == "Replaced != NULL with IS NOT NULL"
D_NULL == "Replaced = NULL with IS NULL"
D_OR_IN == "Converted OR chain to IN() list"
D_YEAR == "Rewrote YEAR() equality to date range predicate to allow index usage"
D_STAR == "Replaced SELECT * with explicit column list"

(***************************************************************************)
(* The patterns.                                                           *)
(***************************************************************************)
\* r"!=\s*NULL"
MatchNotEq(s, i) ==
    IF s[i] # "!" THEN 0
    ELSE Lit(s, Star(s, Lit(s, i, S_NE), "\\s"), S_NULL)

\* r"=\s*NULL"
MatchEq(s, i) ==
    IF s[i] # "=" THEN 0
    ELSE Lit(s, Star(s, Lit(s, i, S_EQ), "\\s"), S_NULL)

\* r"\s+OR\s+"
MatchOrSep(s, i) ==
    IF i = 0 \/ i > Len(s) THEN 0
    ELSE IF s[i] \notin SpaceChars THEN 0
    ELSE Plus(s, Lit(s, Plus(s, i, "\\s"), S_OR), "\\s")

\* r"\s+OR\s+\1\s*=\s*[^\s]+" : one more disjunct on the column `col`.
MatchDisjunct(s, i, col) ==
    Plus(s, Star(s, Lit(s, Star(s, Lit(s, MatchOrSep(s, i), col), "\\s"), S_EQ), "\\s"),
         "[^\\s]")

\* (?: ... )* : as many further disjuncts as match.
RECURSIVE MatchDisjuncts(_, _, _)
MatchDisjuncts(s, i, col) ==
    LET e == MatchDisjunct(s, i, col)
    IN  IF e = 0 THEN i ELSE MatchDisjuncts(s, e, col)

\* r"WHERE\s+([\w\.]+)\s*=\s*([^\s]+)\s+OR\s+\1\s*=\s*([^\s]+(?:\s+OR\s+\1\s*=\s*[^\s]+)*)"
\* The groups of the match that starts at i; end = 0 when there is none.
\* The pattern is matched left to right: g1..g1e is group 1, g2..g2e group 2,
\* g3..e group 3; a position 0 is a failure and is passed on.
MatchOrChain(s, i) ==
    LET Groups(col, g2, g2e, g3, e) ==
            IF e = 0 THEN [end |-> 0]
            ELSE [end |-> e, column |-> col, first_value |-> Slice(s, g2, g2e),
                  rest |-> Slice(s, g3, e)]
        \* (?:\s+OR\s+\1\s*=\s*[^\s]+)* after the second value, which ends at v2e
        Further(col, g2, g2e, g3, v2e) ==
            Groups(col, g2, g2e, g3, IF v2e = 0 THEN 0 ELSE MatchDisjuncts(s, v2e, col))
        \* [^\s]+ : the second value
        Value2(col, g2, g2e, g3) == Further(col, g2, g2e, g3, Plus(s, g3, "[^\\s]"))
        \* \s+OR\s+\1\s*=\s*
        Or2(col, g2, g2e) ==
            Value2(col, g2, g2e,
                   Star(s, Lit(s, Star(s, Lit(s, MatchOrSep(s, g2e), col), "\\s"), S_EQ),
                        "\\s"))
        \* ([^\s]+) : the first value
        Value1(col, g2) == Or2(col, g2, Plus(s, g2, "[^\\s]"))
        \* \s*=\s*
        Equals1(g1, g1e) ==
            Value1(IF g1e = 0 THEN <<>> ELSE Slice(s, g1, g1e),
                   Star(s, Lit(s, Star(s, g1e, "\\s"), S_EQ), "\\s"))
        \* ([\w\.]+) : the column
        Column(g1) == Equals1(g1, Plus(s, g1, "[\\w\\.]"))
    IN  IF s[i] \notin {"W", "w"} THEN [end |-> 0]
        ELSE Column(Plus(s, Lit(s, i, S_WHERE), "\\s"))

\* r"YEAR\s*\(\s*([\w\.]+)\s*\)\s*=\s*(\d{4})"
Digits4(s, i) ==
    IF i > 0 /\ i + 3 <= Len(s) /\ \A k \in 0..3 : InClass(s[i + k], "\\d")
    THEN i + 4 ELSE 0

MatchYear(s, i) ==
    LET Groups(g1, g1e, g2, e) ==
            IF e = 0 THEN [end |-> 0]
            ELSE [end |-> e, column |-> Slice(s, g1, g1e), year_str |-> Slice(s, g2, e)]
        \* (\d{4})
        Year(g1, g1e, g2) == Groups(g1, g1e, g2, Digits4(s, g2))
        \* \s*\)\s*=\s*
        Equals(g1, g1e) ==
            Year(g1, g1e,
                 Star(s, Lit(s, Star(s, Lit(s, Star(s, g1e, "\\s"), S_RPAREN), "\\s"), S_EQ),
                      "\\s"))
        \* ([\w\.]+)
        Column(g1) == Equals(g1, Plus(s, g1, "[\\w\\.]"))
    IN  IF s[i] \notin {"Y", "y"} THEN [end |-> 0]
        ELSE Column(Star(s, Lit(s, Star(s, Lit(s, i, S_YEAR), "\\s"), S_LPAREN), "\\s"))

\* r"^\s*SELECT\s+\*\s+FROM\s+([A-Za-z0-9_]+)\b(.*)$" with re.DOTALL, matched at
\* the start of the string.  \b holds at the end of the longest run only.
MatchSelectStar(s) ==
    LET Groups(g1, g1e) ==
            IF g1e = 0 THEN [end |-> 0]
            ELSE [end |-> Len(s) + 1, table |-> Slice(s, g1, g1e),
                  tail |-> Slice(s, g1e, Len(s) + 1)]
        Table(g1) == Groups(g1, Plus(s, g1, "[A-Za-z0-9_]"))
    IN  Table(Plus(s, Lit(s, Plus(s, Lit(s, Plus(s, Lit(s, Star(s, 1, "\\s"), S_SELECT),
                   "\\s"), S_STAR), "\\s"), S_FROM), "\\s"))

\* pattern.search(sql, i): the start of the leftmost match at or after i, 0 when
\* there is none.  M(s, j) is the end of the match starting at j, or 0.
Search(M(_, _), s, i) ==
    LET starts == {j \in i..Len(s) : M(s, j) > 0}
    IN  IF starts = {} THEN 0 ELSE CHOOSE j \in starts : \A k \in starts : j <= k

OrChainEnd(s, i) == MatchOrChain(s, i).end
YearEnd(s, i) == MatchYear(s, i).end

(***************************************************************************)
(* The rewrite rules.  A rule takes the SQL and the list of changes so far *)
(* and returns both (the code appends to the list it is given).            *)
(***************************************************************************)
\* pattern_not_eq.sub("IS NOT NULL", sql): the leftmost matches from i on are
\* replaced, the text between them kept.
RECURSIVE SubNotEq(_, _)
SubNotEq(s, i) ==
    LET j == Search(MatchNotEq, s, i)
    IN  IF j = 0 THEN Slice(s, i, Len(s) + 1)
        ELSE Slice(s, i, j) \o S_IS_NOT_NULL \o SubNotEq(s, MatchNotEq(s, j))

\* pattern_eq.sub("IS NULL", sql)
RECURSIVE SubEq(_, _)
SubEq(s, i) ==
    LET j == Search(MatchEq, s, i)
    IN  IF j = 0 THEN Slice(s, i, Len(s) + 1)
        ELSE Slice(s, i, j) \o S_IS_NULL \o SubEq(s, MatchEq(s, j))

NullNotEq(sql, changes) ==
    IF Search(MatchNotEq, sql, 1) > 0
    THEN [sql |-> SubNotEq(sql, 1), changes |-> Append(changes, D_NOT_NULL)]
    ELSE [sql |-> sql, changes |-> changes]

\* Mutation: the change is recorded without the pattern being searched for.
NullEqAlwaysRecords(sql, changes) ==
    [sql |-> SubEq(sql, 1), changes |-> Append(changes, D_NULL)]

NullEq(sql, changes) ==
    IF Search(MatchEq, sql, 1) > 0
    THEN [sql |-> SubEq(sql, 1), changes |-> Append(changes, D_NULL)]
    ELSE [sql |-> sql, changes |-> changes]

_rewrite_null_comparisons(sql, changes) ==
    LET Second(r) == NullEq(r.sql, r.changes) IN Second(NullNotEq(sql, changes))

\* re.split(r"\s+OR\s+", rest, flags=re.IGNORECASE): the parts of s[i:].
RECURSIVE SplitOr(_, _)
SplitOr(s, i) ==
    LET j == Search(MatchOrSep, s, i)
    IN  IF j = 0 THEN <<Slice(s, i, Len(s) + 1)>>
        ELSE <<Slice(s, i, j)>> \o SplitOr(s, MatchOrSep(s, j))

\* The loop of repl: _col, _eq, _val = part.partition("="); _val.strip()
PartValues(parts) == [k \in 1..Len(parts) |-> Strip(AfterEq(parts[k]))]

\* repl of _rewrite_or_to_in: the text that replaces the match m.
OrReplacement(m) ==
    LET values == <<m.first_value>> \o PartValues(SplitOr(m.rest, 1))
    IN  S_WHERE_ \o m.column \o S_IN_LPAREN \o Join(values, S_COMMA_) \o S_RPAREN

\* pattern.sub(repl, sql) from i on: repl is called on each leftmost match in
\* turn, and appends one change per call.
RECURSIVE SubOrChain(_, _, _)
SubOrChain(s, i, changes) ==
    LET \* the match m at j is replaced; r is the substitution past it
        Splice(j, m, r) ==
            [sql |-> Slice(s, i, j) \o OrReplacement(m) \o r.sql, changes |-> r.changes]
        Replace(j, m) == Splice(j, m, SubOrChain(s, m.end, Append(changes, D_OR_IN)))
        From(j) ==
            IF j = 0 THEN [sql |-> Slice(s, i, Len(s) + 1), changes |-> changes]
            ELSE Replace(j, MatchOrChain(s, j))
    IN  From(Search(OrChainEnd, s, i))

_rewrite_or_to_in(sql, changes) == SubOrChain(sql, 1, changes)

\* Mutation: the upper bound repeats the year instead of naming the next one.
YearReplacementSameYear(m) ==
    LET bound == S_QUOTE \o Format04d(IntOf(m.year_str)) \o S_JAN1 \o S_QUOTE
    IN  m.column \o S_GE_ \o bound \o S_AND_ \o m.column \o S_LT_ \o bound

\* repl of _rewrite_year_function_on_column.
YearReplacement(m) ==
    LET year == IntOf(m.year_str)
        start == S_QUOTE \o Format04d(year) \o S_JAN1 \o S_QUOTE
        end == S_QUOTE \o Format04d(year + 1) \o S_JAN1 \o S_QUOTE
    IN  m.column \o S_GE_ \o start \o S_AND_ \o m.column \o S_LT_ \o end

RECURSIVE SubYear(_, _, _)
SubYear(s, i, changes) ==
    LET Splice(j, m, r) ==
            [sql |-> Slice(s, i, j) \o YearReplacement(m) \o r.sql, changes |-> r.changes]
        Replace(j, m) == Splice(j, m, SubYear(s, m.end, Append(changes, D_YEAR)))
        From(j) ==
            IF j = 0 THEN [sql |-> Slice(s, i, Len(s) + 1), changes |-> changes]
            ELSE Replace(j, MatchYear(s, j))
    IN  From(Search(YearEnd, s, i))

_rewrite_year_function_on_column(sql, changes) == SubYear(sql, 1, changes)

\* _get_columns_for_table_from_db: [] for an unsafe identifier; otherwise it
\* connects (which raises when the server is down) and runs SHOW COLUMNS (which
\* raises for a table the schema does not have).  The schema of the model has
\* one table, users(id, name, email).
_get_columns_for_table_from_db(server, table) ==
    IF ~(table # <<>> /\ \A k \in 1..Len(table) : InClass(table[k], "[A-Za-z0-9_]"))
    THEN [raised |-> FALSE, columns |-> <<>>]
    ELSE IF server = "db_down" THEN [raised |-> TRUE, columns |-> <<>>]
    ELSE IF table = S_users
    THEN [raised |-> FALSE, columns |-> <<S_id, S_name, S_email>>]
    ELSE [raised |-> TRUE, columns |-> <<>>]

\* A column resolver is a callable; calling it on a table either raises or
\* returns a list of columns.  The resolvers of the model:
\*   "fails"      raises for every table;
\*   "empty"      returns [] for every table;
\*   "users_stub" the stub of the tests: asserts table == "users" and returns
\*                ["id", "name", "email"];
\*   "one_column" returns ["id"] for every table;
\*   "db_up", "db_down"  lambda table: _get_columns_for_table_from_db(config, table)
\*                with a config that reaches a running / an unreachable server.
Resolve(resolver, table) ==
    CASE resolver = "fails" -> [raised |-> TRUE, columns |-> <<>>]
      [] resolver = "empty" -> [raised |-> FALSE, columns |-> <<>>]
      [] resolver = "one_column" -> [raised |-> FALSE, columns |-> <<S_id>>]
      [] resolver = "users_stub" ->
            IF table = S_users
            THEN [raised |-> FALSE, columns |-> <<S_id, S_name, S_email>>]
            ELSE [raised |-> TRUE, columns |-> <<>>]
      [] resolver \in {"db_up", "db_down"} ->
            _get_columns_for_table_from_db(resolver, table)
      [] OTHER -> [raised |-> TRUE, columns |-> <<>>]     \* None is not callable

\* Mutation: the resolver is called outside any try/except and its result is
\* not tested for emptiness.
SelectStarFailsClosed(sql, changes, get_columns_for_table) ==
    LET Expand(m, got) ==
            IF got.raised
            THEN [sql |-> sql, changes |-> changes, raised |-> TRUE,
                  consulted |-> <<m.table>>]
            ELSE [sql |-> S_SELECT_ \o Join(got.columns, S_COMMA_) \o S_FROM_
                           \o m.table \o m.tail,
                  changes |-> Append(changes, D_STAR),
                  raised |-> FALSE, consulted |-> <<m.table>>]
        Matched(m) ==
            IF m.end = 0
            THEN [sql |-> sql, changes |-> changes, raised |-> FALSE, consulted |-> <<>>]
            ELSE Expand(m, Resolve(get_columns_for_table, m.table))
    IN  Matched(MatchSelectStar(sql))

\* Mutation: the statement is rebuilt without its tail.
SelectStarDropsTail(sql, changes, get_columns_for_table) ==
    LET unchanged == [sql |-> sql, changes |-> changes, raised |-> FALSE]
        Expand(m, got) ==
            LET called == [consulted |-> <<m.table>>]
            IN  IF got.raised THEN unchanged @@ called
                ELSE IF got.columns = <<>> THEN unchanged @@ called
                ELSE [sql |-> S_SELECT_ \o Join(got.columns, S_COMMA_) \o S_FROM_
                               \o m.table,
                      changes |-> Append(changes, D_STAR),
                      raised |-> FALSE] @@ called
        Matched(m) ==
            IF m.end = 0 THEN unchanged @@ [consulted |-> <<>>]
            ELSE Expand(m, Resolve(get_columns_for_table, m.table))
    IN  Matched(MatchSelectStar(sql))

\* _rewrite_select_star_with_columns.  `raised` tells whether an exception
\* leaves the function; `consulted` lists the tables the resolver was called on.
_rewrite_select_star_with_columns(sql, changes, get_columns_for_table) ==
    LET unchanged == [sql |-> sql, changes |-> changes, raised |-> FALSE]
        Expand(m, got) ==
            LET called == [consulted |-> <<m.table>>]
            IN  IF got.raised THEN unchanged @@ called           \* except Exception
                ELSE IF got.columns = <<>> THEN unchanged @@ called
                ELSE [sql |-> S_SELECT_ \o Join(got.columns, S_COMMA_) \o S_FROM_
                               \o m.table \o m.tail,
                      changes |-> Append(changes, D_STAR),
                      raised |-> FALSE] @@ called
        Matched(m) ==
            IF m.end = 0 THEN unchanged @@ [consulted |-> <<>>]
            ELSE Expand(m, Resolve(get_columns_for_table, m.table))
    IN  Matched(MatchSelectStar(sql))

RewriteResult(original_sql, rewritten_sql, mode, changes) ==
    [raised |-> FALSE, original_sql |-> original_sql, rewritten_sql |-> rewritten_sql,
     mode |-> mode, changes |-> changes]

\* Mutation: the YEAR rule runs first and the null-comparison rule last.
RewriteQueryYearFirst(sql, mode) ==
    LET Return(r) == RewriteResult(sql, r.sql, Lower(mode), r.changes)
        Rule3(r) == Return(_rewrite_null_comparisons(r.sql, r.changes))
        Rule2(r) == Rule3(_rewrite_or_to_in(r.sql, r.changes))
    IN  Rule2(_rewrite_year_function_on_column(sql, <<>>))

\* rewrite_query: the three safe rules in order; the mode is lowercased and
\* recorded, and gates nothing.
rewrite_query(sql, mode) ==
    LET Return(r) == RewriteResult(sql, r.sql, Lower(mode), r.changes)
        Rule3(r) == Return(_rewrite_year_function_on_column(r.sql, r.changes))
        Rule2(r) == Rule3(_rewrite_or_to_in(r.sql, r.changes))
    IN  Rule2(_rewrite_null_comparisons(sql, <<>>))

\* Mutation: the tier is not tested before the expansion.
WithConnectionUngated(sql, mode, database, server) ==
    LET Return(star) ==
            [result |-> RewriteResult(sql, star.sql, Lower(mode), star.changes),
             consulted |-> star.consulted]
        From(base_result) ==
            IF Falsy(database)
            THEN [result |-> base_result, consulted |-> <<>>]
            ELSE Return(_rewrite_select_star_with_columns(
                            base_result.rewritten_sql, base_result.changes, server))
    IN  From(rewrite_query(sql, mode))

\* rewrite_query_with_connection.  `server` is the resolver the function
\* builds from its connection parameters: "db_up" or "db_down".
rewrite_query_with_connection(sql, mode, database, server) ==
    LET Return(star) ==
            [result |-> RewriteResult(sql, star.sql, Lower(mode), star.changes),
             consulted |-> star.consulted]
        From(base_result) ==
            IF Lower(mode) \notin {"moderate", "aggressive"}
            THEN [result |-> base_result, consulted |-> <<>>]
            ELSE IF Falsy(database)
            THEN [result |-> base_result, consulted |-> <<>>]
            ELSE Return(_rewrite_select_star_with_columns(
                            base_result.rewritten_sql, base_result.changes, server))
    IN  From(rewrite_query(sql, mode))

(***************************************************************************)
(* profiler.py: QueryProfileResult.  Values whose Python type varies (the   *)
(* "rows" of an explain row, rows_returned of a sample, the averages) are   *)
(* kept with their type.                                                    *)
(***************************************************************************)
PyNone == [type |-> "NoneType"]
PyInt(n) == [type |-> "int", value |-> n]
PyStr(chars) == [type |-> "str", value |-> chars]
\* The float sum / len, kept exact as numerator and denominator.
PyFloat(num, den) == [type |-> "float", num |-> num, den |-> den]

QueryExecutionSample(iteration, execution_time_ms, rows_returned) ==
    [iteration |-> iteration, execution_time_ms |-> execution_time_ms,
     rows_returned |-> rows_returned]

\* ExplainRow.raw with the keys the statistics read; an absent key reads as
\* None.  rows and Extra are typed values; the text of an Extra is kept as the
\* sequence of its annotations.
ExplainRow(rows, extra, key, type) ==
    [rows |-> rows, Extra |-> extra, key |-> key, type |-> type]

QueryProfileResult(query, samples, rows, mysql_version, server_version) ==
    [query |-> query, samples |-> samples, explain_rows |-> rows,
     mysql_version |-> mysql_version, server_version |-> server_version]

RECURSIVE SumTimes(_)
SumTimes(samples) ==
    IF samples = <<>> THEN 0
    ELSE samples[1].execution_time_ms + SumTimes(Tail(samples))

average_time_ms(self) ==
    IF self.samples = <<>> THEN PyFloat(0, 1)
    ELSE PyFloat(SumTimes(self.samples), Len(self.samples))

\* Mutation: only an int is counted; a string of digits is passed over.
IntOrZeroRejectsStrings(v) ==
    CASE v.type = "NoneType" -> [counted |-> TRUE, value |-> 0]
      [] v.type = "int" -> [counted |-> TRUE, value |-> v.value]
      [] v.type = "str" -> [counted |-> FALSE, value |-> 0]

\* int(row.raw.get("rows") or 0) inside try/except (TypeError, ValueError):
\* `counted` is FALSE when the conversion raised and the row was passed over.
IntOrZero(v) ==
    CASE v.type = "NoneType" -> [counted |-> TRUE, value |-> 0]
      [] v.type = "int" -> [counted |-> TRUE, value |-> v.value]
      [] v.type = "str" ->
            IF v.value = <<>> THEN [counted |-> TRUE, value |-> 0]
            ELSE IF \A k \in 1..Len(v.value) : v.value[k] \in Digits
            THEN [counted |-> TRUE, value |-> IntOf(v.value)]
            ELSE [counted |-> FALSE, value |-> 0]              \* ValueError

RECURSIVE RowsFrom(_, _, _)
\* The loop of estimated_rows_examined from row k on.
RowsFrom(rows, k, total) ==
    IF k > Len(rows) THEN total
    ELSE IF IntOrZero(rows[k].rows).counted
    THEN RowsFrom(rows, k + 1, total + IntOrZero(rows[k].rows).value)
    ELSE RowsFrom(rows, k + 1, total)                          \* continue

estimated_rows_examined(self) == RowsFrom(self.explain_rows, 1, 0)

\* str(row.raw.get("Extra") or "").lower()
ExtraLower(v) ==
    CASE v.type = "NoneType" -> <<>>
      [] v.type = "str" -> LowerAll(v.value)

uses_filesort(self) ==
    \E k \in 1..Len(self.explain_rows) :
        In("filesort", ExtraLower(self.explain_rows[k].Extra))

uses_temporary(self) ==
    \E k \in 1..Len(self.explain_rows) :
        In("temporary", ExtraLower(self.explain_rows[k].Extra))

ReturnedValues(samples) ==
    SelectSeq([k \in 1..Len(samples) |-> samples[k].rows_returned],
              LAMBDA v : v # PyNone)

RECURSIVE SumValues(_)
SumValues(values) ==
    IF values = <<>> THEN 0 ELSE values[1].value + SumValues(Tail(values))

average_rows_returned(self) ==
    IF ReturnedValues(self.samples) = <<>> THEN PyNone
    ELSE PyFloat(SumValues(ReturnedValues(self.samples)),
                 Len(ReturnedValues(self.samples)))

index_usage_summary(self) ==
    LET used == SelectSeq(self.explain_rows, LAMBDA row : ~Falsy(row.key))
    IN  [k \in 1..Len(used) |->
            [index |-> used[k].key, type |-> used[k].type, rows |-> used[k].rows]]

to_dict(self) ==
    [query |-> self.query,
     samples |-> self.samples,
     average_time_ms |-> average_time_ms(self),
     average_rows_returned |-> average_rows_returned(self),
     estimated_rows_examined |-> estimated_rows_examined(self),
     uses_filesort |-> uses_filesort(self),
     uses_temporary |-> uses_temporary(self),
     index_usage |-> index_usage_summary(self),
     query_metrics |->
        [execution_time_ms |-> average_time_ms(self),
         rows_examined |-> estimated_rows_examined(self),
         rows_returned |-> average_rows_returned(self),
         temp_tables_created |-> IF uses_temporary(self) THEN 1 ELSE 0,
         filesort_operations |-> IF uses_filesort(self) THEN 1 ELSE 0,
         index_usage |-> index_usage_summary(self)],
     mysql_version |-> self.mysql_version,
     server_version |-> self.server_version,
     explain |-> self.explain_rows]

(***************************************************************************)
(* Inputs of the plan analyser.                                            *)
(***************************************************************************)
Row(table, type, possible_keys, key, extra) ==
    [table |-> table, type |-> type, possible_keys |-> possible_keys,
     key |-> key, Extra |-> extra]

PlanRows ==
    { Row("orders", "ALL", None, None, <<"Using where">>),
      Row(None, "ALL", None, None, <<"Using where">>),
      Row("users", "all", None, None,
          <<"Using where", "Using temporary", "Using filesort">>),
      Row(None, "ALL", None, None,
          <<"Using where", "Using temporary", "Using filesort">>),
      Row("users", "ALL", "idx_a", None, <<"Using where">>),
      Row("users", "ALL", None, "idx_a", <<"Using where">>),
      Row("orders", "ALL", None, None, <<>>),
      Row("orders", "index", None, None, <<"Using where">>),
      Row("orders", "index", "PRIMARY", "PRIMARY", <<"Using index", "Using filesort">>),
      Row(None, "index", None, None, <<"Using temporary">>),
      Row("orders", "ref", "idx_a", "idx_a", <<>>) }

SeqsUpTo(S, n) == UNION { [1..m -> S] : m \in 0..n }

GivenRecommendations ==
    { [k \in 1..n |-> IndexRecommendation("orders", <<"<choose_filter_column>">>)] :
        n \in 0..MaxRecs }

(***************************************************************************)
(* SpecPlan: the plan analyser.  A caller holds plan rows and either calls *)
(* _compute_index_health directly with recommendations of its own (as the  *)
(* tests do) or goes through _analyze_explain_for_indexes first (as        *)
(* analyze_query_indexes does).                                            *)
(***************************************************************************)
InitPlan ==
    /\ pc = "start"
    /\ explain_rows \in SeqsUpTo(PlanRows, MaxRows)
    /\ recommendations \in GivenRecommendations
    /\ health_score = 100
    /\ issues = <<>>
    /\ arg_sql = <<>>
    /\ arg_mode = None
    /\ arg_database = None
    /\ arg_resolver = None
    /\ consulted = <<>>
    /\ result = None
    /\ again = None
    /\ profile = None
    /\ data = None

Analyze ==
    /\ pc = "start"
    /\ recommendations' = _analyze_explain_for_indexes(explain_rows)
    /\ pc' = "analyzed"
    /\ UNCHANGED <<explain_rows, health_score, issues, rewriteVars, profileVars>>

ComputeHealth ==
    /\ pc \in {"start", "analyzed"}
    /\ LET r == _compute_index_health(explain_rows, recommendations)
       IN  /\ health_score' = r.score
           /\ issues' = r.issues
    /\ pc' = IF pc = "start" THEN "health" ELSE "done"
    /\ UNCHANGED <<explain_rows, recommendations, rewriteVars, profileVars>>

NextPlan == Analyze \/ ComputeHealth

SpecPlan == InitPlan /\ [][NextPlan]_vars

(***************************************************************************)
(* Inputs of the rewriter: a head followed by up to MaxConds conditions    *)
(* joined by OR.                                                           *)
(***************************************************************************)
H_SELECT ==
    <<"S", "E", "L", "E", "C", "T", " ", "*", " ", "F", "R", "O", "M", " ",
      "u", "s", "e", "r", "s", " ", "W", "H", "E", "R", "E", " ">>
H_SELECT_T ==
    <<"s", "e", "l", "e", "c", "t", " ", "*", " ", "f", "r", "o", "m", " ",
      "t", " ", "w", "h", "e", "r", "e", " ">>
H_UPDATE ==
    <<"U", "P", "D", "A", "T", "E", " ", "t", " ", "S", "E", "T", " ", "f",
      " ", "=", " ">>
Q_a1 == <<"a", " ", "=", " ", "1">>
Q_a2 == <<"a", " ", "=", " ", "2">>
Q_b3 == <<"b", " ", "=", " ", "3">>
Q_ne == <<"a", " ", "!", "=", " ", "N", "U", "L", "L">>
Q_eq == <<"a", " ", "=", " ", "n", "u", "l", "l">>
Q_year ==
    <<"Y", "E", "A", "R", "(", "d", ")", " ", "=", " ", "2", "0", "2", "4">>
Q_nyear ==
    <<"Y", "E", "A", "R", "(", "n", "u", "l", "l", "_", "a", "t", ")", " ",
      "=", " ", "9", "9", "9", "9">>
Q_ynull ==
    <<"y", "e", "a", "r", "(", "N", "U", "L", "L", ")", " ", "=", " ", "2",
      "0", "2", "4">>
S_OR_ == <<" ", "O", "R", " ">>

Heads == {H_SELECT, H_SELECT_T, H_UPDATE}
Conds == {Q_a1, Q_a2, Q_b3, Q_ne, Q_eq, Q_year, Q_nyear, Q_ynull}

Queries ==
    { head \o Join(conds, S_OR_) :
        head \in Heads, conds \in SeqsUpTo(Conds, MaxConds) \ {<<>>} }

Modes == {"safe", "moderate", "aggressive", "MODERATE", "turbo"}
Tiers == {"safe", "moderate", "aggressive"}

Resolvers == {"fails", "empty", "users_stub", "one_column"}
Servers == {"db_up", "db_down"}
Databases == {None, "shop"}

(***************************************************************************)
(* SpecRewrite: the rewriter.  A caller holds a SQL string and calls       *)
(* rewrite_query (and then rewrite_query again on what it returned),       *)
(* rewrite_query_with_connection, or one of the rules directly, as the     *)
(* tests do.                                                               *)
(***************************************************************************)
InitRewrite ==
    /\ pc = "start"
    /\ arg_sql \in Queries
    /\ arg_mode = None
    /\ arg_database = None
    /\ arg_resolver = None
    /\ consulted = <<>>
    /\ result = None
    /\ again = None
    /\ profile = None
    /\ data = None
    /\ explain_rows = <<>>
    /\ recommendations = <<>>
    /\ health_score = 100
    /\ issues = <<>>

CallRewriteQuery ==
    /\ pc = "start"
    /\ \E m \in Modes :
        /\ arg_mode' = m
        /\ result' = rewrite_query(arg_sql, m)
    /\ pc' = "rewrite_query"
    /\ UNCHANGED <<arg_sql, arg_database, arg_resolver, consulted, again, planVars, profileVars>>

\* The caller hands the rewritten SQL back to rewrite_query at the same tier.
CallRewriteQueryAgain ==
    /\ pc = "rewrite_query"
    /\ again' = rewrite_query(result.rewritten_sql, arg_mode)
    /\ pc' = "rewrite_query_again"
    /\ UNCHANGED <<arg_sql, arg_mode, arg_database, arg_resolver, consulted, result, planVars, profileVars>>

\* `server` is the server the connection parameters reach when a database is
\* named; the function builds its resolver (the lambda over the connection
\* config) only past its two early returns.
CallRewriteQueryWithConnection ==
    /\ pc = "start"
    /\ \E m \in Modes, db \in Databases :
        \E server \in (IF Falsy(db) THEN {None} ELSE Servers) :
        \E r \in {rewrite_query_with_connection(arg_sql, m, db, server)} :
            /\ arg_mode' = m
            /\ arg_database' = db
            /\ arg_resolver' = server
            /\ result' = r.result
            /\ consulted' = r.consulted
    /\ pc' = "rewrite_query_with_connection"
    /\ UNCHANGED <<arg_sql, again, planVars, profileVars>>

CallOrToIn ==
    /\ pc = "start"
    /\ \E r \in {_rewrite_or_to_in(arg_sql, <<>>)} :
        result' = RewriteResult(arg_sql, r.sql, None, r.changes)
    /\ pc' = "_rewrite_or_to_in"
    /\ UNCHANGED <<arg_sql, arg_mode, arg_database, arg_resolver, consulted, again, planVars, profileVars>>

CallSelectStar ==
    /\ pc = "start"
    /\ \E get_columns \in Resolvers :
        \E r \in {_rewrite_select_star_with_columns(arg_sql, <<>>, get_columns)} :
            /\ arg_resolver' = get_columns
            /\ result' = [RewriteResult(arg_sql, r.sql, None, r.changes)
                            EXCEPT !.raised = r.raised]
            /\ consulted' = r.consulted
    /\ pc' = "_rewrite_select_star_with_columns"
    /\ UNCHANGED <<arg_sql, arg_mode, arg_database, again, planVars, profileVars>>

CallYear ==
    /\ pc = "start"
    /\ \E r \in {_rewrite_year_function_on_column(arg_sql, <<>>)} :
        result' = RewriteResult(arg_sql, r.sql, None, r.changes)
    /\ pc' = "_rewrite_year_function_on_column"
    /\ UNCHANGED <<arg_sql, arg_mode, arg_database, arg_resolver, consulted, again, planVars, profileVars>>

NextRewrite ==
    \/ CallRewriteQuery
    \/ CallRewriteQueryAgain
    \/ CallRewriteQueryWithConnection
    \/ CallOrToIn
    \/ CallSelectStar
    \/ CallYear

SpecRewrite == InitRewrite /\ [][NextRewrite]_vars

(***************************************************************************)
(* Inputs of the profile statistics: the explain rows and samples a        *)
(* QueryProfileResult is constructed with, and the calls of to_dict.       *)
(***************************************************************************)
ProfileRows ==
    { ExplainRow(PyInt(42), PyStr(<<"Using filesort", "Using temporary">>), None, None),
      ExplainRow(PyInt(3), PyStr(<<"Using where">>), "idx_a", "ref"),
      ExplainRow(PyNone, PyNone, None, "ALL"),
      ExplainRow(PyStr(<<"n", "/", "a">>), PyStr(<<"Using FILESORT">>), "", None),
      ExplainRow(PyStr(<<"7">>), PyStr(<<"Using temporary">>), "PRIMARY", "index"),
      ExplainRow(PyInt(0), PyStr(<<>>), None, None) }

Samples ==
    { QueryExecutionSample(1, 10, PyInt(5)),
      QueryExecutionSample(2, 20, PyInt(15)),
      QueryExecutionSample(3, 5, PyNone) }

Versions == {None, "8.0.36"}

InitProfile ==
    /\ pc = "start"
    /\ explain_rows = <<>>
    /\ recommendations = <<>>
    /\ health_score = 0
    /\ issues = <<>>
    /\ arg_sql = <<>>
    /\ arg_mode = None
    /\ arg_database = None
    /\ arg_resolver = None
    /\ consulted = {}
    /\ result = None
    /\ again = None
    /\ profile = None
    /\ data = None

\* The construction of a QueryProfileResult: the return of profile_query.
Construct ==
    /\ pc = "start"
    /\ \E samples \in SeqsUpTo(Samples, MaxSamples),
          rows \in SeqsUpTo(ProfileRows, MaxExplainRows),
          server_version \in Versions :
        profile' = QueryProfileResult("SELECT * FROM t", samples, rows, None, server_version)
    /\ pc' = "profile_query"
    /\ UNCHANGED <<data, planVars, rewriteVars>>

ToDict ==
    /\ pc = "profile_query"
    /\ data' = to_dict(profile)
    /\ pc' = "to_dict"
    /\ UNCHANGED <<profile, planVars, rewriteVars>>

NextProfile == Construct \/ ToDict

SpecProfile == InitProfile /\ [][NextProfile]_vars

(***************************************************************************)
(* Properties of the plan analyser.                                        *)
(***************************************************************************)
HealthReturned == pc \in {"health", "done"}

RowsWhere(P(_)) == Cardinality({k \in 1..Len(explain_rows) : P(explain_rows[k])})

IsFullScan(row) == row.type \in {"ALL", "all", "All"}
IsIndexScan(row) == row.type \in {"index", "INDEX"}
MentionsFilesort(row) ==
    \E k \in 1..Len(row.Extra) : row.Extra[k] \in {"Using filesort", "using filesort"}
MentionsTemporary(row) ==
    \E k \in 1..Len(row.Extra) : row.Extra[k] \in {"Using temporary", "using temporary"}

\* The sum P of the penalties of claim C2.
Penalty ==
    20 * RowsWhere(IsFullScan) + 5 * RowsWhere(IsIndexScan)
    + 10 * RowsWhere(MentionsFilesort) + 10 * RowsWhere(MentionsTemporary)
    + (IF Len(recommendations) > 0
       THEN (IF 5 * Len(recommendations) < 20 THEN 5 * Len(recommendations) ELSE 20)
       ELSE 0)

\* C1: whatever the plan rows and the recommendations, the score returned by
\* _compute_index_health is an integer with 0 <= score <= 100.
C1_ScoreInRange == HealthReturned => health_score \in 0..100

\* C1 witness: a returned score of 0 whose penalties exceed 100.
C1_Witness == HealthReturned /\ health_score = 0 /\ Penalty > 100

\* C2: the score is max(0, 100 - P), P being 20 per full-scan row, 5 per
\* index-scan row, 10 per row mentioning filesort, 10 per row mentioning a
\* temporary table, and min(5 * count, 20) when there are recommendations.
C2_ScoreFormula ==
    HealthReturned => health_score = (IF 100 - Penalty > 0 THEN 100 - Penalty ELSE 0)

\* C2 witness: three full-scan rows and five recommendations: 100 - 60 - 20.
C2_Witness ==
    /\ HealthReturned
    /\ Len(explain_rows) = 3
    /\ RowsWhere(IsFullScan) = 3
    /\ Len(recommendations) = 5
    /\ health_score = 20

\* The issues one row contributes, in the order scan, filesort, temporary.
ExpectedRowIssues(row) ==
    LET t == IF row.table \in {None, ""} THEN "?" ELSE row.table
    IN  (IF IsFullScan(row) THEN <<Issue("Full table scan on", t)>>
         ELSE IF IsIndexScan(row) THEN <<Issue("Sequential index scan on", t)>>
         ELSE <<>>)
        \o (IF MentionsFilesort(row) THEN <<Issue("Filesort required for", t)>> ELSE <<>>)
        \o (IF MentionsTemporary(row) THEN <<Issue("Temporary table used for", t)>> ELSE <<>>)

RECURSIVE ExpectedIssuesUpTo(_)
ExpectedIssuesUpTo(n) ==
    IF n = 0 THEN <<>>
    ELSE ExpectedIssuesUpTo(n - 1) \o ExpectedRowIssues(explain_rows[n])

\* C3: the issues are those of row 1, then those of row 2, ... (within a row:
\* scan, filesort, temporary), followed by the recommendation-count issue, which
\* is last when there are recommendations and absent when there are none.
C3_IssueOrder ==
    HealthReturned =>
        issues = ExpectedIssuesUpTo(Len(explain_rows))
                 \o (IF recommendations = <<>> THEN <<>>
                     ELSE <<CountIssue(Len(recommendations))>>)

\* C3 witness: two rows with issues, the second one with both a filesort and a
\* temporary-table issue, and a trailing recommendation-count issue.
C3_Witness ==
    /\ HealthReturned
    /\ Len(explain_rows) >= 2
    /\ ExpectedRowIssues(explain_rows[1]) # <<>>
    /\ Len(ExpectedRowIssues(explain_rows[2])) = 3
    /\ recommendations # <<>>
    /\ issues[Len(issues)].count = Len(recommendations)

HasTable(row) == row.table \notin {None, ""}
NamedUnknown(row) == [row EXCEPT !.table = IF HasTable(row) THEN row.table ELSE "?"]
RowsWithTable == SelectSeq(explain_rows, HasTable)
RowsNamed == [k \in 1..Len(explain_rows) |-> NamedUnknown(explain_rows[k])]

\* C6 as stated: a plan row without a table field is skipped by both
\* computations: the recommendations and the health result are those of the
\* rows that have a table.
C6_SkippedByBoth ==
    /\ pc \in {"analyzed", "done"} =>
           recommendations = _analyze_explain_for_indexes(RowsWithTable)
    /\ HealthReturned =>
           /\ health_score = _compute_index_health(RowsWithTable, recommendations).score
           /\ issues = _compute_index_health(RowsWithTable, recommendations).issues

\* C6 amended: a plan row without a table field yields no recommendation (the
\* recommendations are those of the rows that have a table), but
\* _compute_index_health does not skip it: the row is penalised and reported
\* like any other row, its issues naming the table "?".
C6_SkippedByAnalysisOnly ==
    /\ pc \in {"analyzed", "done"} =>
           /\ recommendations = _analyze_explain_for_indexes(RowsWithTable)
           /\ \A k \in 1..Len(recommendations) : recommendations[k].table # None
    /\ HealthReturned =>
           /\ health_score = _compute_index_health(RowsNamed, recommendations).score
           /\ issues = _compute_index_health(RowsNamed, recommendations).issues
           /\ health_score = (IF 100 - Penalty > 0 THEN 100 - Penalty ELSE 0)

\* C6 witness: the whole analysis has run on rows of which one has no table,
\* is a filtered full scan without keys, and is followed by a row that is
\* recommended; the health issues name "?".
C6_Witness ==
    /\ pc = "done"
    /\ Len(explain_rows) >= 2
    /\ ~HasTable(explain_rows[1])
    /\ IsFullScan(explain_rows[1])
    /\ recommendations # <<>>
    /\ issues[1] = Issue("Full table scan on", "?")
    /\ health_score < 100

(***************************************************************************)
(* Properties of the rewriter.                                             *)
(***************************************************************************)
\* C4: a call with a tier string that is not safe, moderate or aggressive
\* (case-insensitively) is rejected: an error reaches the caller and no
\* RewriteResult carrying that mode is returned.
C4_InvalidTierRejected ==
    (/\ pc \in {"rewrite_query", "rewrite_query_with_connection"}
     /\ Lower(arg_mode) \notin Tiers)
    => result.raised

\* The resolver fails on the table the statement names: it raises or returns
\* no column.
ResolutionFails ==
    /\ consulted # <<>>
    /\ LET got == Resolve(arg_resolver, consulted[1])
       IN  got.raised \/ got.columns = <<>>

\* C5: column expansion fails open: when the resolver raises or returns an
\* empty list for the matched table, the SQL comes back unchanged, no change
\* is appended and nothing is raised; rewrite_query_with_connection then
\* returns what rewrite_query returns.
C5_FailsOpen ==
    /\ (pc = "_rewrite_select_star_with_columns" /\ ResolutionFails)
       => /\ ~result.raised
          /\ result.rewritten_sql = arg_sql
          /\ result.changes = <<>>
    /\ (pc = "rewrite_query_with_connection" /\ ResolutionFails)
       => /\ ~result.raised
          /\ result = rewrite_query(arg_sql, arg_mode)

\* C5 witness: the rule was called on SELECT * FROM users, consulted the
\* resolver, and the resolver raised.
C5_Witness ==
    /\ pc = "_rewrite_select_star_with_columns"
    /\ consulted = <<S_users>>
    /\ arg_resolver = "fails"
    /\ result.rewritten_sql = arg_sql

\* C7: rewrite_query is idempotent: applied to its own output at the same
\* tier, it returns that output unchanged and an empty list of changes.
C7_Idempotent ==
    pc = "rewrite_query_again"
    => /\ again.rewritten_sql = result.rewritten_sql
       /\ again.changes = <<>>

\* No pattern of rules 1-3 occurs in the string.
NoPatternOccurs(s) ==
    /\ Search(MatchNotEq, s, 1) = 0
    /\ Search(MatchEq, s, 1) = 0
    /\ Search(OrChainEnd, s, 1) = 0
    /\ Search(YearEnd, s, 1) = 0

\* C8: rewrite_query raises nothing; when no rule's pattern occurs in the
\* input the output equals the input and the list of changes is empty; and the
\* list of changes is empty exactly when the output equals the input.
C8_NoOpWhenNothingMatches ==
    pc = "rewrite_query"
    => /\ ~result.raised
       /\ result.original_sql = arg_sql
       /\ NoPatternOccurs(arg_sql)
          => (result.rewritten_sql = arg_sql /\ result.changes = <<>>)
       /\ (result.changes = <<>>) <=> (result.rewritten_sql = result.original_sql)

\* C8 witness: rewrite_query has returned on an input without any pattern.
C8_Witness ==
    /\ pc = "rewrite_query"
    /\ NoPatternOccurs(arg_sql)
    /\ Len(arg_sql) > Len(H_SELECT)
    /\ result.changes = <<>>

\* The OR chains of the model in which the disjuncts compare a and b both.
MixedChains ==
    { head \o Join(conds, S_OR_) :
        head \in {H_SELECT, H_SELECT_T},
        conds \in { c \in SeqsUpTo({Q_a1, Q_a2, Q_b3}, MaxConds) :
                      /\ \E k \in 1..Len(c) : c[k] = Q_b3
                      /\ \E k \in 1..Len(c) : c[k] # Q_b3 } }

\* C9: a chain in which some disjunct compares a different column (WHERE a = 1
\* OR a = 2 OR b = 3) is left unchanged by _rewrite_or_to_in, and no change is
\* recorded.
C9_MixedChainUntouched ==
    (pc = "_rewrite_or_to_in" /\ arg_sql \in MixedChains)
    => /\ result.rewritten_sql = arg_sql
       /\ result.changes = <<>>

\* The value a condition of the model compares its column with.
ValueOf(cond) == <<cond[Len(cond)]>>

\* The chains col = v1 OR ... OR col = vn, n >= 2, on the column a.
SameColumnChains == { c \in SeqsUpTo({Q_a1, Q_a2}, MaxConds) : Len(c) >= 2 }

S_SELECT_STAR_FROM_USERS ==
    <<"S", "E", "L", "E", "C", "T", " ", "*", " ", "F", "R", "O", "M", " ",
      "u", "s", "e", "r", "s", " ">>

FoldedChain(conds) ==
    S_SELECT_STAR_FROM_USERS \o S_WHERE_ \o <<"a">> \o S_IN_LPAREN
    \o Join([k \in 1..Len(conds) |-> ValueOf(conds[k])], S_COMMA_) \o S_RPAREN

\* C10: at tier safe, WHERE col = v1 OR ... OR col = vn (n >= 2) becomes
\* WHERE col IN (v1, ..., vn): exactly the n values, verbatim, in their
\* original order, and one change is recorded for the fold.
C10_FoldKeepsValues ==
    \A conds \in SameColumnChains :
        (/\ pc = "rewrite_query"
         /\ arg_mode = "safe"
         /\ arg_sql = H_SELECT \o Join(conds, S_OR_))
        => /\ result.rewritten_sql = FoldedChain(conds)
           /\ result.changes = <<D_OR_IN>>

\* s contains the text lit (letter case ignored).
Occurs(s, lit) == \E j \in 1..Len(s) : Lit(s, j, lit) > 0

S_YEAR_10000 == <<"'", "1", "0", "0", "0", "0", "-">>

\* C11: rewriting YEAR(col) = Y never overflows for a 4-digit year Y: the
\* upper bound emitted by _rewrite_year_function_on_column has a 4-digit year,
\* so no literal such as '10000-01-01' is produced.
C11_NoFiveDigitYear ==
    pc = "_rewrite_year_function_on_column"
    => ~Occurs(result.rewritten_sql, S_YEAR_10000)

\* The positions of s where YEAR(col) = YYYY occurs.
YearOccurrences(s) == {j \in 1..Len(s) : YearEnd(s, j) > 0}

R_year ==
    <<"d", " ", ">", "=", " ", "'", "2", "0", "2", "4", "-", "0", "1", "-",
      "0", "1", "'", " ", "A", "N", "D", " ", "d", " ", "<", " ", "'", "2",
      "0", "2", "5", "-", "0", "1", "-", "0", "1", "'">>
R_nyear ==
    <<"n", "u", "l", "l", "_", "a", "t", " ", ">", "=", " ", "'", "9", "9",
      "9", "9", "-", "0", "1", "-", "0", "1", "'", " ", "A", "N", "D", " ",
      "n", "u", "l", "l", "_", "a", "t", " ", "<", " ", "'", "1", "0", "0",
      "0", "0", "-", "0", "1", "-", "0", "1", "'">>
R_ynull ==
    <<"N", "U", "L", "L", " ", ">", "=", " ", "'", "2", "0", "2", "4", "-",
      "0", "1", "-", "0", "1", "'", " ", "A", "N", "D", " ", "N", "U", "L",
      "L", " ", "<", " ", "'", "2", "0", "2", "5", "-", "0", "1", "-", "0",
      "1", "'">>

\* The half-open range that replaces a condition of the model, written out;
\* the conditions without YEAR() stay as they are.
Ranged(cond) ==
    CASE cond = Q_year -> R_year
      [] cond = Q_nyear -> R_nyear
      [] cond = Q_ynull -> R_ynull
      [] OTHER -> cond

YearChains == SeqsUpTo({Q_a1, Q_year, Q_nyear, Q_ynull}, MaxConds) \ {<<>>}

\* C12: every occurrence of YEAR(col) = YYYY is replaced by the half-open
\* range col >= 'YYYY-01-01' AND col < '(YYYY+1)-01-01' on the same column,
\* one change is appended per replaced occurrence, and no occurrence remains
\* in the output.
C12_EveryYearReplaced ==
    pc = "_rewrite_year_function_on_column"
    => /\ Len(result.changes) = Cardinality(YearOccurrences(arg_sql))
       /\ \A k \in 1..Len(result.changes) : result.changes[k] = D_YEAR
       /\ YearOccurrences(result.rewritten_sql) = {}
       /\ \A head \in Heads, conds \in YearChains :
            arg_sql = head \o Join(conds, S_OR_)
            => result.rewritten_sql
                 = head \o Join([k \in 1..Len(conds) |-> Ranged(conds[k])], S_OR_)

\* C12 witness: two occurrences on different columns were replaced.
C12_Witness ==
    /\ pc = "_rewrite_year_function_on_column"
    /\ arg_sql = H_SELECT \o Q_year \o S_OR_ \o Q_nyear
    /\ result.rewritten_sql = H_SELECT \o R_year \o S_OR_ \o R_nyear
    /\ result.changes = <<D_YEAR, D_YEAR>>

\* s holds a comparison = NULL or != NULL: the text = NULL (any letter case,
\* any spacing) followed by no further word character.
ComparesWithNull(s) ==
    \E j \in 1..Len(s) :
        \E e \in {MatchEq(s, j)} : e > 0 /\ (e > Len(s) \/ s[e] \notin WordChars)

\* C13: every <expr> != NULL becomes <expr> IS NOT NULL and every <expr> = NULL
\* becomes <expr> IS NULL, in any letter case of NULL, and the output of
\* rewrite_query contains no remaining = NULL or != NULL comparison.
C13_NoNullComparisonLeft ==
    pc = "rewrite_query" => ~ComparesWithNull(result.rewritten_sql)

E_users_stub ==
    <<"S", "E", "L", "E", "C", "T", " ", "i", "d", ",", " ", "n", "a", "m",
      "e", ",", " ", "e", "m", "a", "i", "l", " ", "F", "R", "O", "M", " ",
      "u", "s", "e", "r", "s", " ">>
E_users_one ==
    <<"S", "E", "L", "E", "C", "T", " ", "i", "d", " ", "F", "R", "O", "M",
      " ", "u", "s", "e", "r", "s", " ">>
E_t_one ==
    <<"S", "E", "L", "E", "C", "T", " ", "i", "d", " ", "F", "R", "O", "M",
      " ", "t", " ">>
S_SELECT_STAR_FROM_T ==
    <<"s", "e", "l", "e", "c", "t", " ", "*", " ", "f", "r", "o", "m", " ",
      "t", " ">>

\* The statements SELECT * FROM <table> <rest> of the model with a resolver
\* that returns columns for <table>: what the statement starts with, the
\* resolver, and what the expansion starts with.
Expansions ==
    { [from |-> S_SELECT_STAR_FROM_USERS, by |-> "users_stub", to |-> E_users_stub],
      [from |-> S_SELECT_STAR_FROM_USERS, by |-> "one_column", to |-> E_users_one],
      [from |-> S_SELECT_STAR_FROM_T, by |-> "one_column", to |-> E_t_one] }

StartsWith(s, prefix) == Len(s) >= Len(prefix) /\ SubSeq(s, 1, Len(prefix)) = prefix

\* C14: for SELECT * FROM <table> <rest> and a resolver that returns a
\* non-empty column list for <table>, the rule returns SELECT <columns joined
\* by ", " in resolver order> FROM <table> followed by <rest> unchanged, and
\* appends exactly one change, the one describing the expansion.
C14_StarExpanded ==
    \A x \in Expansions :
        (/\ pc = "_rewrite_select_star_with_columns"
         /\ arg_resolver = x.by
         /\ StartsWith(arg_sql, x.from))
        => /\ result.rewritten_sql
                = x.to \o SubSeq(arg_sql, Len(x.from) + 1, Len(arg_sql))
           /\ result.changes = <<D_STAR>>
           /\ ~result.raised

\* C14 witness: the lower-case statement on t was expanded and its rest kept.
C14_Witness ==
    /\ pc = "_rewrite_select_star_with_columns"
    /\ arg_resolver = "one_column"
    /\ arg_sql = H_SELECT_T \o Q_a1 \o S_OR_ \o Q_b3
    /\ StartsWith(result.rewritten_sql, E_t_one)
    /\ result.changes = <<D_STAR>>

\* The SQL and the changes of a result.
Outcome(r) == <<r.rewritten_sql, r.changes>>

\* C15: the expansion is gated by tier and resolver.  At tier safe, or without
\* a database, rewrite_query_with_connection returns the rewritten_sql and
\* changes of rewrite_query and never consults the resolver; at tier moderate
\* or aggressive with a database, rules 1-3 run as at tier safe and the
\* expansion is applied to their output; aggressive gives what moderate gives.
C15_ExpansionGated ==
    pc = "rewrite_query_with_connection"
    => /\ (Lower(arg_mode) = "safe" \/ Falsy(arg_database))
          => /\ Outcome(result) = Outcome(rewrite_query(arg_sql, arg_mode))
             /\ consulted = <<>>
       /\ (Lower(arg_mode) \in {"moderate", "aggressive"} /\ ~Falsy(arg_database))
          => \E base \in {rewrite_query(arg_sql, "safe")} :
             \E star \in {_rewrite_select_star_with_columns(
                               base.rewritten_sql, base.changes, arg_resolver)} :
                /\ Outcome(result) = <<star.sql, star.changes>>
                /\ consulted = star.consulted
       /\ arg_mode = "aggressive"
          => Outcome(result)
               = Outcome(rewrite_query_with_connection(
                             arg_sql, "moderate", arg_database, arg_resolver).result)

\* C15 witness: at tier safe with a database, a SELECT * on users came back
\* from rewrite_query_with_connection without the resolver being consulted.
C15_Witness ==
    /\ pc = "rewrite_query_with_connection"
    /\ arg_mode = "safe"
    /\ arg_database = "shop"
    /\ arg_resolver = "db_up"
    /\ StartsWith(arg_sql, S_SELECT_STAR_FROM_USERS)
    /\ consulted = <<>>
    /\ result.changes # <<>>

(***************************************************************************)
(* Properties of the recommendations.                                      *)
(***************************************************************************)
Analyzed == pc \in {"analyzed", "done"}

\* The four conditions of the heuristic on a plan row.
NoKeyChosen(row) == row.key \in {None, ""}
HasFilterMarker(row) == \E k \in 1..Len(row.Extra) : row.Extra[k] = "Using where"
NoPossibleKeys(row) == row.possible_keys \in {None, ""}
MeetsHeuristic(row) ==
    IsFullScan(row) /\ NoKeyChosen(row) /\ HasFilterMarker(row) /\ NoPossibleKeys(row)
MeetsHeuristicAndHasTable(row) == MeetsHeuristic(row) /\ HasTable(row)

TablesOf(rows) == [k \in 1..Len(rows) |-> rows[k].table]

\* C16 as stated: a plan row is flagged exactly when it is a full scan, no key
\* was chosen, its Extra holds the filter marker and possible_keys is empty or
\* absent: the recommendations name, in order, the tables of exactly those
\* rows.
C16_FlaggedExactly ==
    Analyzed => TablesOf(recommendations)
                  = TablesOf(SelectSeq(explain_rows, MeetsHeuristic))

\* C16 amended: a plan row is flagged exactly when it meets the four
\* conditions and names a table; every recommendation names the table of the
\* row that produced it, in row order.
C16_FlaggedExactlyWithTable ==
    Analyzed => TablesOf(recommendations)
                  = TablesOf(SelectSeq(explain_rows, MeetsHeuristicAndHasTable))

\* C16 witness: three rows were analysed: one is flagged, one fails only the
\* possible_keys condition, one meets the four conditions and has no table.
C16_Witness ==
    /\ pc = "analyzed"
    /\ Len(explain_rows) = MaxRows
    /\ Len(recommendations) = 1
    /\ \E k \in 1..Len(explain_rows) :
          MeetsHeuristic(explain_rows[k]) /\ ~HasTable(explain_rows[k])
    /\ \E k \in 1..Len(explain_rows) :
          /\ IsFullScan(explain_rows[k]) /\ NoKeyChosen(explain_rows[k])
          /\ HasFilterMarker(explain_rows[k]) /\ ~NoPossibleKeys(explain_rows[k])

\* C17: one IndexRecommendation per matching table: no two recommendations of
\* the returned list have the same table, each has the single placeholder
\* token as its columns, and its suggested_index_name is idx_<table>_<first up
\* to 3 columns joined by underscore>.
C17_OnePerTable ==
    Analyzed
    => /\ \A i, j \in 1..Len(recommendations) :
            i # j => recommendations[i].table # recommendations[j].table
       /\ \A k \in 1..Len(recommendations) :
            /\ recommendations[k].columns = <<"<choose_filter_column>">>
            /\ recommendations[k].suggested_index_name
                 = [prefix |-> "idx", table |-> recommendations[k].table,
                    cols |-> <<"<choose_filter_column>">>]

(***************************************************************************)
(* Properties of the profile statistics.                                   *)
(***************************************************************************)
\* The number a rows value stands for: an integer, or a string of digits;
\* anything else (a missing value, text that is no number) is no number.
IsNumber(v) ==
    \/ v.type = "int"
    \/ v.type = "str" /\ v.value # <<>> /\ \A k \in 1..Len(v.value) : v.value[k] \in Digits
NumberOf(v) == IF v.type = "int" THEN v.value ELSE IntOf(v.value)

RECURSIVE SumOfRows(_)
SumOfRows(rows) ==
    IF rows = <<>> THEN 0
    ELSE (IF IsNumber(rows[1].rows) THEN NumberOf(rows[1].rows) ELSE 0)
         + SumOfRows(Tail(rows))

\* The Extra of a row mentions a word, in any letter case.
Mentions(row, word) ==
    /\ row.Extra.type = "str"
    /\ \E k \in 1..Len(row.Extra.value) :
          row.Extra.value[k] \in
              (IF word = "filesort"
               THEN {"Using filesort", "using filesort", "Using FILESORT"}
               ELSE {"Using temporary", "using temporary"})
SomeRowMentions(word) ==
    \E k \in 1..Len(profile.explain_rows) : Mentions(profile.explain_rows[k], word)

\* C18: the statistics of a QueryProfileResult are functions of the stored
\* explain rows and agree with each other in to_dict: estimated_rows_examined
\* is the sum of the rows values (a missing or non-numeric one counting 0),
\* uses_filesort / uses_temporary holds exactly when some row's Extra mentions
\* filesort / temporary, filesort_operations and temp_tables_created are 1
\* exactly when the flag holds and 0 otherwise, and rows_examined equals
\* estimated_rows_examined.
C18_StatisticsAgree ==
    pc = "to_dict"
    => /\ data.estimated_rows_examined = SumOfRows(profile.explain_rows)
       /\ data.uses_filesort = SomeRowMentions("filesort")
       /\ data.uses_temporary = SomeRowMentions("temporary")
       /\ data.query_metrics.filesort_operations = (IF data.uses_filesort THEN 1 ELSE 0)
       /\ data.query_metrics.temp_tables_created = (IF data.uses_temporary THEN 1 ELSE 0)
       /\ data.query_metrics.rows_examined = data.estimated_rows_examined

\* to_dict has returned for a profile with a row that cannot be counted ahead
\* of rows that can, one of which mentions filesort.
C18_Witness ==
    /\ pc = "to_dict"
    /\ Len(profile.explain_rows) >= 2
    /\ ~IsNumber(profile.explain_rows[1].rows)
    /\ profile.explain_rows[1].rows # PyNone
    /\ data.estimated_rows_examined > 0
    /\ data.query_metrics.filesort_operations = 1
    /\ data.query_metrics.temp_tables_created = 0

(***************************************************************************)
(* Properties of the rule pipeline.                                        *)
(***************************************************************************)
\* The place of the rule that records a change in the pipeline.
RuleOf(description) ==
    CASE description \in {D_NOT_NULL, D_NULL} -> 1
      [] description = D_OR_IN -> 2
      [] description = D_YEAR -> 3
      [] description = D_STAR -> 4

\* A pipeline call has returned.
PipelineReturned ==
    pc \in {"rewrite_query", "rewrite_query_again", "rewrite_query_with_connection"}

InApplicationOrder(changes) ==
    /\ \A i, j \in 1..Len(changes) :
          i < j => RuleOf(changes[i]) <= RuleOf(changes[j])
    /\ \A i \in 1..Len(changes) : changes[i] = D_STAR => i = Len(changes)

\* The three safe rules, each applied to the output of the one before it.
SafeRulesChained(sql) ==
    LET Third(r) == _rewrite_year_function_on_column(r.sql, r.changes)
        Second(r) == Third(_rewrite_or_to_in(r.sql, r.changes))
    IN  Second(_rewrite_null_comparisons(sql, <<>>))

\* C19: the rules run in the order null-comparison, OR-to-IN, YEAR range,
\* column expansion, each on the output of the previous one, and the changes
\* list records them in that order: no null-comparison change follows an
\* OR-to-IN or YEAR change, no OR-to-IN change follows a YEAR change, and the
\* column-expansion change, when present, is last.
C19_ChangesInRuleOrder ==
    /\ PipelineReturned => InApplicationOrder(result.changes)
    /\ pc = "rewrite_query_again" => InApplicationOrder(again.changes)
    /\ pc = "rewrite_query"
       => /\ result.rewritten_sql = SafeRulesChained(arg_sql).sql
          /\ result.changes = SafeRulesChained(arg_sql).changes

\* A pipeline call returned changes of three rules, the expansion among them.
C19_Witness ==
    /\ pc = "rewrite_query_with_connection"
    /\ Len(result.changes) >= 3
    /\ result.changes[1] \in {D_NOT_NULL, D_NULL}
    /\ \E k \in 1..Len(result.changes) : result.changes[k] = D_YEAR
    /\ result.changes[Len(result.changes)] = D_STAR

====
